---- MODULE Spec2Model ----
(***************************************************************************)
(* Model of the local-peer setup layer of the conferencing library:        *)
(*   ov_on_gst_bus_error, ov_get_socket_for_addr,                          *)
(*   ov_local_peer_setup_playback_pipeline,                                *)
(*   ov_local_peer_setup_transmit_pipeline, ov_local_peer_setup_comms,     *)
(*   rtpbin_pad_added, ov_local_peer_setup_remote_receive,                 *)
(*   ov_local_peer_setup_remote_playback                                   *)
(* Assertions (g_assert) are modelled as compiled in: a failed assertion   *)
(* aborts the process.                                                     *)
(***************************************************************************)
EXTENDS Integers, Sequences, FiniteSets, TLC

\* ------------------------------------------------------------------ bounds
\* Number of network interface names the configuration can draw from.
MaxIfaces == 3

\* Number of remote peers that can be discovered and negotiated with.
NumPeers == 2

\* Number of low local ports on which the system may refuse a bind.
MaxRefused == 1

\* Number of transmit pipelines the local peer builds in one run.
MaxBuilds == 3

\* Number of error messages the pipelines' buses deliver in one run.
MaxErrors == 2

\* Number of control connections remote peers open in one run.
MaxConns == 11

Ifaces == 1..MaxIfaces

\* Remote peers are numbered; 0 stands for the local peer.
Peers == 1..NumPeers

\* recv_ports[4]: audio RTP, audio RTCP, video RTP, video RTCP (line 446-449)
NumFlows == 4

Flows == 1..NumFlows

\* ------------------------------------------------------------------ state
VARIABLES
  \* --- discovery / control-channel startup (ov_local_peer_setup_comms)
  pc_comms,          \* "idle" before the call, "done" after return, "crashed"
  cfg_ifaces,        \* the interface list configured before the call
  joinable,          \* environment: interfaces on which a join succeeds
  tcp_ok,            \* environment: g_socket_listener_add_address succeeds
  mc_bind_ok,        \* environment: g_socket_bind of the multicast socket succeeds
  mc_ifaces,         \* priv->mc_ifaces
  tcp_server,        \* priv->tcp_server: [created, listening, handler, started]
  mc_socket,         \* the multicast GSocket: [state, refs]
  mc_source,         \* the GSource of the socket: [state, refs, intact]
  mc_socket_source,  \* priv->mc_socket_source is set
  mc_joined,         \* interfaces on which the socket is a group member
  comms_log,         \* what the GST_WARNING lines printed, one entry per failed join
  comms_ret          \* the value returned (meaningful once pc_comms = "done")

VARIABLES
  \* --- local playback graph and remote peers
  process,           \* "running", or "aborted" by a failed assertion
  fatal,             \* which assertion aborted the process ("none" while running)
  unbindable,        \* environment: local ports on which g_socket_bind fails
  playback,          \* priv->playback: [exists, builds, clock, base_time, watch]
  bins,              \* contents of the playback pipeline and of each peer's playback bins
  mixer_pads,        \* request pads existing on priv->audiomixer (their serials)
  mixer_links,       \* <<pad, peer>>: peer's audio ghost pad is linked to the mixer pad
  padserial,         \* the mixer's last request pad serial
  peers              \* the OvRemotePeer records

VARIABLES
  \* --- local peer: state, transmit pipeline, bus messages, control connections
  local_state,       \* the bits set in the local peer's state (none: NULL)
  transmit,          \* priv->transmit: the pipeline it points to, 0 for NULL
  tx_graphs,         \* every transmit pipeline built so far, by serial
  tx_refs,           \* priv->rtpbin, priv->asend_rtp_sink, ...: <<pipeline, element>>
  tx_ret,            \* what the last ov_local_peer_setup_transmit_pipeline returned
  bus_log,           \* what ov_on_gst_bus_error printed: the pipeline of each error
  conns              \* the accepted control connections, in the order of arrival

comms_vars == <<pc_comms, cfg_ifaces, joinable, tcp_ok, mc_bind_ok, mc_ifaces,
                tcp_server, mc_socket, mc_source, mc_socket_source, mc_joined,
                comms_log, comms_ret>>

remote_vars == <<process, fatal, unbindable, playback, bins, mixer_pads,
                 mixer_links, padserial, peers>>

local_vars == <<local_state, transmit, tx_graphs, tx_refs, tx_ret, bus_log, conns>>

vars == <<comms_vars, remote_vars, local_vars>>

\* ------------------------------------------------------------- helpers
Range(s) == {s[i] : i \in 1..Len(s)}

\* g_list_delete_link: the list without its i-th link
DeleteLink(list, i) == SubSeq(list, 1, i - 1) \o SubSeq(list, i + 1, Len(list))

\* all duplicate-free lists over Ifaces
IfaceLists == {s \in UNION {[1..n -> Ifaces] : n \in 0..MaxIfaces} :
                 \A i, j \in 1..Len(s) : i # j => s[i] # s[j]}

\* What reading l->data can yield once the link l has been freed
\* (GST_WARNING at line 381 runs after g_list_delete_link at line 380).
UafOutcomes == {"name", "garbage", "crash"}

\* What g_object_unref does when handed a GSource, which is no GObject
\* (line 398): the type check rejects it, or it scribbles on the source,
\* or the process dies.
SourceUnrefOutcomes == {"rejected", "corrupted", "crash"}

\* --------------------------------------------------- ov_local_peer_setup_comms
\* faulty variant of AfterListen: the failure is logged but the goto is missing
AfterListenSkip(ret) == "continue"

\* lines 333-337: a listener that cannot be added leaves through out_early

AfterListen(ret) == IF ret THEN "continue" ELSE "out_early"

\* faulty variant of AdvanceAfterDelete: steps once more after the deletion
AdvanceAfterDeleteSkip(i) == i + 1

\* lines 378, 384: after a failed join the walk resumes at the saved next link
\* (with the failed link deleted, the next link sits at the same position)

AdvanceAfterDelete(i) == i

\* lines 372-392: the join loop. s = [list, l, ret, joined, log, crashed];
\* l is the position of the link being visited, Len(list)+1 standing for NULL.
RECURSIVE JoinLoop(_, _, _)
JoinLoop(s, canJoin, uaf) ==
  IF s.crashed \/ s.l > Len(s.list) THEN s
  ELSE LET iface == s.list[s.l]
           ret   == iface \in canJoin       \* g_socket_join_multicast_group
       IN IF ~ret
          THEN JoinLoop([list    |-> DeleteLink(s.list, s.l),
                         l       |-> AdvanceAfterDelete(s.l),
                         ret     |-> FALSE,
                         joined  |-> s.joined,
                         log     |-> Append(s.log,
                                       IF uaf[iface] = "name" THEN iface ELSE 0),
                         crashed |-> uaf[iface] = "crash"],
                        canJoin, uaf)
          ELSE JoinLoop([list    |-> s.list,
                         l       |-> s.l + 1,
                         ret     |-> TRUE,
                         joined  |-> s.joined \cup {iface},
                         log     |-> s.log,
                         crashed |-> FALSE],
                        canJoin, uaf)

NoSocket == [state |-> "none", refs |-> 0]
NoSource == [state |-> "none", refs |-> 0, intact |-> TRUE]
NoServer == [created |-> FALSE, listening |-> FALSE, handler |-> FALSE,
             started |-> FALSE]

\* g_object_unref of the socket: the last reference closes it
UnrefSocket(sock) ==
  IF sock.refs = 1 THEN [state |-> "closed", refs |-> 0]
  ELSE [sock EXCEPT !.refs = @ - 1]

\* lines 305-403, the whole call
ov_local_peer_setup_comms ==
  /\ pc_comms = "idle"
  /\ UNCHANGED <<cfg_ifaces, joinable, tcp_ok, mc_bind_ok, remote_vars, local_vars>>
  /\ \E uaf \in [Ifaces -> UafOutcomes], unref \in SourceUnrefOutcomes :
       LET server0 == [NoServer EXCEPT !.created = TRUE]          \* line 325
           ret0    == tcp_ok                                      \* line 330
       IN IF AfterListen(ret0) = "out_early"
          THEN \* lines 399-402
               /\ tcp_server' = server0
               /\ comms_ret' = ret0
               /\ pc_comms' = "done"
               /\ UNCHANGED <<mc_ifaces, mc_socket, mc_source, mc_socket_source,
                              mc_joined, comms_log>>
          ELSE LET server1 == [created |-> TRUE, listening |-> ret0,
                               handler |-> TRUE, started |-> TRUE] \* 339-342
               IN /\ tcp_server' = server1
                  /\ IF ~mc_bind_ok
                     THEN \* lines 354-362, then out: with ret still as line 330 left it
                          /\ mc_socket' = UnrefSocket([state |-> "unbound", refs |-> 1])
                          /\ comms_ret' = ret0
                          /\ pc_comms' = "done"
                          /\ UNCHANGED <<mc_ifaces, mc_source, mc_socket_source,
                                         mc_joined, comms_log>>
                     ELSE LET \* lines 352-369: socket bound, source holds a
                              \* reference to it and is attached to the main context
                              sock1 == [state |-> "bound", refs |-> 2]
                              src1  == [state |-> "attached", refs |-> 2,
                                        intact |-> TRUE]
                              r == JoinLoop([list |-> mc_ifaces, l |-> 1,
                                             ret |-> FALSE, joined |-> {},
                                             log |-> <<>>, crashed |-> FALSE],
                                            joinable, uaf)
                          IN /\ mc_ifaces' = r.list
                             /\ mc_joined' = r.joined
                             /\ comms_log' = r.log
                             /\ mc_socket_source' = TRUE            \* line 369
                             /\ IF r.crashed
                                THEN /\ pc_comms' = "crashed"
                                     /\ mc_socket' = sock1
                                     /\ mc_source' = src1
                                     /\ comms_ret' = FALSE
                                ELSE \* out: lines 394-398
                                     /\ mc_socket' = UnrefSocket(sock1)
                                     /\ IF ~r.ret /\ unref = "crash"
                                        THEN /\ pc_comms' = "crashed"
                                             /\ comms_ret' = FALSE
                                             /\ mc_source' = src1
                                        ELSE /\ pc_comms' = "done"
                                             /\ comms_ret' = r.ret
                                             /\ mc_source' =
                                                  IF ~r.ret /\ unref = "corrupted"
                                                  THEN [src1 EXCEPT !.intact = FALSE]
                                                  ELSE src1

\* ============================================== local playback, remote peers
\* Elements of the playback side are <<owner, name>>, owner 0 being the local peer.
PlaybackBin == <<0, "playback">>

AudioMixer == <<0, "audiomixer">>

AudioSink == <<0, "audiosink">>

\* remote->priv->aplayback and remote->priv->vplayback (lines 600, 633)
APlaybackBin(p) == <<p, "aplayback">>

VPlaybackBin(p) == <<p, "vplayback">>

BinIds == {PlaybackBin} \cup {APlaybackBin(p) : p \in Peers}
                        \cup {VPlaybackBin(p) : p \in Peers}

NoPlayback == [exists |-> FALSE, builds |-> 0, clock |-> "none",
               base_time |-> -1, watch |-> FALSE]

\* the elements line 525-528 adds to remote->receive
ReceiveElements == {"rtpbin", "asrc", "adepay", "adecode", "asink", "artcpsink",
                    "artcpsrc", "vsrc", "vdepay", "vdecode", "vsink",
                    "vrtcpsink", "vrtcpsrc"}

NoTarget == [host |-> 0, port |-> 0]

NoPorts == [i \in Flows |-> 0]

NoAdvert == [artp |-> 0, artcp_sr |-> 0, artcp_rr |-> 0,
             vrtp |-> 0, vrtcp_sr |-> 0, vrtcp_rr |-> 0]

\* An OvRemotePeer that was not created yet
AbsentPeer ==
  [st |-> "absent", advert |-> NoAdvert,
   recv_ports |-> NoPorts, send_ports |-> <<0, 0, 0, 0, 0, 0>>,
   socks |-> NoPorts, receive |-> {}, linked |-> FALSE, pad_added |-> FALSE,
   artcp_target |-> NoTarget, vrtcp_target |-> NoTarget,
   adepay_src |-> -1, vdepay_src |-> -1,
   audio_proxysink |-> FALSE, video_proxysink |-> FALSE,
   audio_proxysrc |-> FALSE, video_proxysrc |-> FALSE,
   video_sink |-> "none", mixer_pad |-> 0]

\* An OvRemotePeer after its teardown
GonePeer == [AbsentPeer EXCEPT !.st = "gone"]

Live == {"negotiated", "receiving"}

\* ------------------------------------------------------ ov_get_socket_for_addr
\* lines 63-91: the bound socket (named by its port), or 0 for NULL. On either
\* failure the socket that may have been created is released at line 88, so the
\* call leaves no socket open besides the one it returns.
ov_get_socket_for_addr(port, bad) ==
  IF port \in bad
  THEN [socket |-> 0, open |-> {}]
  ELSE [socket |-> port, open |-> {port}]

\* A failed g_assert aborts the process: every graph it held is gone and the
\* system closes every socket it had open.
Abort(why) ==
  /\ process' = "aborted"
  /\ fatal' = why
  /\ peers' = [p \in Peers |-> GonePeer]
  /\ playback' = NoPlayback
  /\ bins' = [b \in BinIds |-> {}]
  /\ mixer_pads' = {}
  /\ mixer_links' = {}
  /\ padserial' = 0

\* -------------------------------------- ov_local_peer_setup_playback_pipeline
\* faulty variant of AlreadySetup: the test is missing
AlreadySetupNever(pb) == FALSE

\* line 103: priv->playback != NULL && GST_IS_PIPELINE (priv->playback)

AlreadySetup(pb) == pb.exists

\* lines 94-141
ov_local_peer_setup_playback_pipeline ==
  /\ process = "running"
  /\ IF AlreadySetup(playback)
     THEN \* lines 103-105: already set up
          UNCHANGED <<playback, bins>>
     ELSE /\ playback' = [exists |-> TRUE, builds |-> playback.builds + 1,
                          clock |-> "system", base_time |-> 0, watch |-> TRUE]
          /\ bins' = [bins EXCEPT ![PlaybackBin] = {AudioMixer, AudioSink}]
  /\ UNCHANGED <<process, fatal, unbindable, mixer_pads, mixer_links, padserial,
                 peers, comms_vars, local_vars>>

\* --------------------------------------------------------- control channel
\* What remote peer p advertises as the ports it receives on, per medium:
\* RTP, RTCP sender reports, RTCP receiver reports.
Adverts(p) ==
  {[artp |-> 10 * p + 1, artcp_sr |-> 10 * p + 2, artcp_rr |-> 10 * p + 3,
    vrtp |-> 10 * p + 4, vrtcp_sr |-> 10 * p + 5, vrtcp_rr |-> 10 * p + 6]}

\* sendPorts[6]: the remote's advertised ports, three per medium
SendPortsOf(a) ==
  <<a.artp, a.artcp_sr, a.artcp_rr, a.vrtp, a.vrtcp_sr, a.vrtcp_rr>>

\* The allocator hands out blocks of NumFlows local ports.
Blocks == 1..NumPeers

BlockPorts(b) == [i \in Flows |-> NumFlows * (b - 1) + i]

LocalPorts == UNION {{BlockPorts(b)[i] : i \in Flows} : b \in Blocks}

\* environment: the local ports the system may refuse to bind (the lowest ones)
RefusedPorts == 1..MaxRefused

\* local ports held by the live remote peers
PortsInUse ==
  UNION {{peers[p].recv_ports[i] : i \in Flows} :
           p \in {q \in Peers : peers[q].st \in Live}}

\* Negotiation with p succeeded: the RemotePeer record is created with the
\* allocator's recv ports (a block none of whose ports is held) and the ports
\* the remote advertised.
Negotiate(p) ==
  /\ process = "running"
  /\ peers[p].st = "absent"
  /\ \E b \in Blocks, a \in Adverts(p) :
       /\ {BlockPorts(b)[i] : i \in Flows} \cap PortsInUse = {}
       /\ peers' = [peers EXCEPT ![p] =
                      [AbsentPeer EXCEPT !.st = "negotiated",
                                         !.advert = a,
                                         !.recv_ports = BlockPorts(b),
                                         !.send_ports = SendPortsOf(a)]]
  /\ UNCHANGED <<process, fatal, unbindable, playback, bins, mixer_pads,
                 mixer_links, padserial, comms_vars, local_vars>>

\* Disconnect or fatal error of p: its sockets are released, its receive graph
\* is dropped, its mixer input is released and its sub-graphs are removed from
\* the playback graph.
Teardown(p) ==
  /\ process = "running"
  /\ peers[p].st \in Live
  /\ peers' = [peers EXCEPT ![p] = GonePeer]
  /\ mixer_pads' = mixer_pads \ {peers[p].mixer_pad}
  /\ mixer_links' = {l \in mixer_links : l[1] # peers[p].mixer_pad /\ l[2] # p}
  /\ bins' = [b \in BinIds |->
                IF b \in {APlaybackBin(p), VPlaybackBin(p)} THEN {}
                ELSE IF b = PlaybackBin
                     THEN bins[b] \ {APlaybackBin(p), VPlaybackBin(p)}
                     ELSE bins[b]]
  /\ UNCHANGED <<process, fatal, unbindable, playback, padserial, comms_vars, local_vars>>

\* The callers set a peer's receive side up once, after negotiation, and bridge
\* it into playback at most once.
CallerMaySetupReceive(p) == peers[p].st = "negotiated"

CallerMaySetupPlayback(p) == peers[p].st \in Live /\ ~peers[p].audio_proxysrc

\* ------------------------------------------------------------ rtpbin_pad_added
DigitChars == <<"0", "1", "2", "3", "4", "5", "6", "7", "8", "9">>

\* printf's %u
RECURSIVE FormatUInt(_)
FormatUInt(n) ==
  IF n < 10 THEN <<DigitChars[n + 1]>>
  ELSE Append(FormatUInt(n \div 10), DigitChars[(n % 10) + 1])

\* "recv_rtp_src_" (line 414)
PadPrefix == <<"r", "e", "c", "v", "_", "r", "t", "p", "_", "s", "r", "c", "_">>

\* 'recv_rtp_src_%u_%u_%u' (lines 417-418): session, SSRC, payload type
PadName(session, ssrc, pt) ==
  PadPrefix \o FormatUInt(session) \o <<"_">> \o FormatUInt(ssrc)
            \o <<"_">> \o FormatUInt(pt)

\* line 414: G_N_ELEMENTS counts the terminating NUL
PadPrefixElements == Len(PadPrefix) + 1

\* name[len-1] of lines 419-421, C indices counting from 0
SessionChar(name) == name[(PadPrefixElements - 1) + 1]

\* lines 419-425: the decode branch picked for the pad
PickDepay(name) ==
  IF SessionChar(name) = "0" THEN "adepay"
  ELSE IF SessionChar(name) = "1" THEN "vdepay"
  ELSE "not_reached"

\* session numbers, SSRCs and payload types of the pads that can appear
Sessions == {0, 1, 2, 10}

Ssrcs == {4021}

PayloadTypes == {96}

\* lines 406-432
rtpbin_pad_added(p, session) ==
  /\ process = "running"
  /\ peers[p].pad_added                    \* connected at line 565
  /\ \E ssrc \in Ssrcs, pt \in PayloadTypes :
       LET depay == PickDepay(PadName(session, ssrc, pt))
           Link(d) == IF d = "adepay"
                      THEN [peers EXCEPT ![p].adepay_src = session]
                      ELSE [peers EXCEPT ![p].vdepay_src = session]
           linked == IF depay = "adepay" THEN peers[p].adepay_src # -1
                     ELSE peers[p].vdepay_src # -1
       IN IF depay = "not_reached"
          THEN Abort("assert_not_reached")                       \* line 425
          ELSE IF linked
          THEN \* gst_pad_link refuses a sink pad that is linked: line 430
               Abort("pad_link")
          ELSE /\ peers' = Link(depay)
               /\ UNCHANGED <<process, fatal, playback, bins, mixer_pads,
                              mixer_links, padserial>>
  /\ UNCHANGED <<unbindable, comms_vars, local_vars>>

\* ------------------------------------------ ov_local_peer_setup_remote_receive
\* lines 446-449
RecvPortsValid(r) == \A i \in Flows : r.recv_ports[i] > 0

\* faulty variant of FlowPort: the video RTCP flow reuses the audio RTCP index
FlowPortSlip(r, i) == r.recv_ports[IF i = 4 THEN 2 ELSE i]

\* lines 467-468, 480-481, 495-496, 511-512: the port flow i is bound to

FlowPort(r, i) == r.recv_ports[i]

\* faulty variant of AudioRRPort: send_ports[1], the sender-report port
AudioRRPortSlip(r) == r.send_ports[1 + 1]

\* line 491 and line 522: the ports the receiver reports are sent to
\* (send_ports[2] and send_ports[5], C indices counting from 0)

AudioRRPort(r) == r.send_ports[2 + 1]

VideoRRPort(r) == r.send_ports[5 + 1]

\* remote->addr
RemoteAddr(p) == p

\* lines 435-574
ov_local_peer_setup_remote_receive(p) ==
  /\ process = "running"
  /\ CallerMaySetupReceive(p)
  /\ IF ~RecvPortsValid(peers[p])
     THEN Abort("recv_ports")
     ELSE LET r == peers[p]
              \* the four ov_get_socket_for_addr calls; a NULL result is
              \* handed to g_object_set and g_object_unref and the setup goes on
              sock == [i \in Flows |->
                         ov_get_socket_for_addr(FlowPort(r, i), unbindable).socket]
          IN /\ peers' = [peers EXCEPT ![p] =
                  [r EXCEPT !.st = "receiving",
                            !.socks = sock,
                            !.artcp_target = [host |-> RemoteAddr(p),
                                              port |-> AudioRRPort(r)],
                            !.vrtcp_target = [host |-> RemoteAddr(p),
                                              port |-> VideoRRPort(r)],
                            !.receive = ReceiveElements,     \* lines 525-528
                            !.linked = TRUE,                 \* lines 531-560
                            !.pad_added = TRUE,              \* line 565
                            !.audio_proxysink = TRUE,        \* line 568
                            !.video_proxysink = TRUE]]       \* line 569
             /\ UNCHANGED <<process, fatal, playback, bins, mixer_pads,
                            mixer_links, padserial>>
  /\ UNCHANGED <<unbindable, comms_vars, local_vars>>

\* ----------------------------------------- ov_local_peer_setup_remote_playback
\* faulty variant of AudioProxysrcBin: the source goes into priv->playback itself
AudioProxysrcBinSlip(p) == PlaybackBin

\* lines 600-601 and 633-634: the bins the proxy sources are added to

AudioProxysrcBin(p) == APlaybackBin(p)

VideoProxysrcBin(p) == VPlaybackBin(p)

\* faulty variant of RequestMixerPad: the pad "sink_1" is asked for by name
RequestMixerPadReuse(serial) == IF playback.exists THEN 1 ELSE 0

\* line 598: gst_element_get_request_pad (priv->audiomixer, "sink_%u") hands out
\* the next serial; with no mixer it returns NULL (0)

RequestMixerPad(serial) == IF playback.exists THEN serial + 1 ELSE 0

\* gst_bin_add (priv->playback, bin): lines 602, 635
BinAddOk(content, bin) == playback.exists /\ bin \notin content

\* faulty variant of BridgeAudio: the audio bridge is built unconditionally
BridgeAudioAlways(r) == TRUE

\* line 589: the audio bridge is built only if the receive side has set
\* remote->priv->audio_proxysink

BridgeAudio(r) == r.audio_proxysink

\* line 620: likewise for video
BridgeVideo(r) == r.video_proxysink

\* lines 576-643
ov_local_peer_setup_remote_playback(p) ==
  /\ process = "running"
  /\ CallerMaySetupPlayback(p)
  /\ LET r      == peers[p]
         pad    == RequestMixerPad(padserial)                          \* 598
         \* audio, lines 589-616
         binsA1 == [bins EXCEPT ![AudioProxysrcBin(p)] =
                                   @ \cup {<<p, "audio_proxysrc">>}]   \* 600
         okA    == BinAddOk(binsA1[PlaybackBin], APlaybackBin(p))      \* 602
         binsA2 == [binsA1 EXCEPT ![PlaybackBin] = @ \cup {APlaybackBin(p)}]
         linkA  == pad # 0 /\ ~\E l \in mixer_links : l[1] = pad       \* 613
         \* video, lines 620-640
         binsIn == IF BridgeAudio(r) THEN binsA2 ELSE bins
         sink   == IF r.video_sink = "none" THEN "glimagesink"         \* 630
                   ELSE r.video_sink
         binsV1 == [binsIn EXCEPT ![VideoProxysrcBin(p)] =
                      @ \cup {<<p, "video_proxysrc">>, <<p, "video_sink">>}]
         okV    == BinAddOk(binsV1[PlaybackBin], VPlaybackBin(p))      \* 635
         binsV2 == [binsV1 EXCEPT ![PlaybackBin] = @ \cup {VPlaybackBin(p)}]
     IN IF BridgeAudio(r) /\ ~okA
        THEN Abort("bin_add")                                          \* 603
        ELSE IF BridgeAudio(r) /\ ~linkA
        THEN Abort("pad_link")                                         \* 614
        ELSE IF BridgeVideo(r) /\ ~okV
        THEN Abort("bin_add")                                          \* 636
        ELSE /\ peers' = [peers EXCEPT ![p] =
                  [r EXCEPT !.audio_proxysrc = BridgeAudio(r),
                            !.mixer_pad = IF BridgeAudio(r) THEN pad ELSE 0,
                            !.video_proxysrc = BridgeVideo(r),
                            !.video_sink = IF BridgeVideo(r) THEN sink
                                           ELSE r.video_sink]]
             /\ bins' = IF BridgeVideo(r) THEN binsV2 ELSE binsIn
             /\ mixer_pads' = IF BridgeAudio(r) THEN mixer_pads \cup {pad}
                              ELSE mixer_pads
             /\ mixer_links' = IF BridgeAudio(r)
                               THEN mixer_links \cup {<<pad, p>>}
                               ELSE mixer_links
             /\ padserial' = IF BridgeAudio(r) THEN pad ELSE padserial
             /\ UNCHANGED <<process, fatal, playback>>
  /\ UNCHANGED <<unbindable, comms_vars, local_vars>>

\* ==================================================== local peer: transmit
\* the bits ov_local_peer_setup_transmit_pipeline tests (lines 159-161);
\* the state NULL has none of them set
StateBits == {"READY", "STARTED"}

\* The local peer's state changes to s.
ov_local_peer_set_state(s) ==
  /\ process = "running"
  /\ s # local_state
  /\ local_state' = s
  /\ UNCHANGED <<transmit, tx_graphs, tx_refs, tx_ret, bus_log, conns,
                 comms_vars, remote_vars>>

\* the elements lines 223-226 add to priv->transmit, by the name of the local
\* variable (or field) holding them
TransmitElements ==
  {"rtpbin", "asrc", "afilter", "aencode", "apay", "artpqueue", "asink",
   "artcpqueue", "artcpsink", "artcpsrc", "vsrc", "vfilter", "vqueue", "vpay",
   "vrtpqueue", "vsink", "vrtcpqueue", "vrtcpsink", "vrtcpsrc"}

\* the element each cached field of priv is assigned:
\* lines 170, 233, 236, 237, 262, 265, 266
TransmitEndpoints ==
  [rtpbin          |-> "rtpbin",
   asend_rtcp_sink |-> "artcpsink",
   asend_rtp_sink  |-> "asink",
   arecv_rtcp_src  |-> "artcpsrc",
   vsend_rtcp_sink |-> "vrtcpsink",
   vsend_rtp_sink  |-> "vsink",
   vrecv_rtcp_src  |-> "vrtcpsrc"]

EndpointNames == DOMAIN TransmitEndpoints

GraphIds == 1..MaxBuilds

\* a pipeline that was not created yet
NoGraph == [state |-> "none", built_in |-> {}, elements |-> {},
            clock |-> "none", base_time |-> -1, watch |-> FALSE]

\* a cached field that was never assigned
NoRef == <<0, "none">>

\* the serial of the pipeline gst_pipeline_new creates next
NewGraph == Cardinality({g \in GraphIds : tx_graphs[g].state # "none"}) + 1

\* faulty variant of StateAllowsTransmit: the READY workaround is missing
StateAllowsTransmitStartedOnly(state) == "STARTED" \in state

\* lines 159-162: the call goes on if the STARTED or the READY bit is set

StateAllowsTransmit(state) == "STARTED" \in state \/ "READY" \in state

\* faulty variant of WipeTransmit: the old pipeline is not released
WipeTransmitKeep(graphs, t) == graphs

\* lines 164-167: the reference priv->transmit holds on the pre-existing
\* pipeline is dropped, which releases the pipeline and its elements

WipeTransmit(graphs, t) ==
  IF t # 0 /\ graphs[t].state = "alive"
  THEN [graphs EXCEPT ![t] = [@ EXCEPT !.state = "freed", !.elements = {},
                                       !.watch = FALSE]]
  ELSE graphs

\* lines 143-302
ov_local_peer_setup_transmit_pipeline ==
  /\ process = "running"
  /\ IF ~StateAllowsTransmit(local_state)
     THEN \* line 162
          /\ tx_ret' = FALSE
          /\ UNCHANGED <<transmit, tx_graphs, tx_refs>>
     ELSE /\ NewGraph \in GraphIds
          /\ LET new == NewGraph
                 graphs1 == WipeTransmit(tx_graphs, transmit)     \* 164-167
             IN /\ transmit' = new                                \* 169
                /\ tx_graphs' = [graphs1 EXCEPT ![new] =
                     [state |-> "alive", built_in |-> local_state,
                      elements |-> {<<new, e>> : e \in TransmitElements},
                      clock |-> "system",                         \* 289-290
                      base_time |-> 0,                            \* 291
                      watch |-> TRUE]]                            \* 293-296
                /\ tx_refs' = [f \in EndpointNames |->
                                 <<new, TransmitEndpoints[f]>>]
                /\ tx_ret' = TRUE                                 \* 301
  /\ UNCHANGED <<local_state, bus_log, conns, comms_vars, remote_vars>>

\* ---------------------------------------------------------- ov_on_gst_bus_error
\* the pipelines whose bus has the handler connected (lines 134-135, 295-296)
ErrorSources == {"transmit", "playback"}

\* the bus of the pipeline has its signal watch and the pipeline is there
BusWatched(src) ==
  IF src = "transmit" THEN transmit # 0 /\ tx_graphs[transmit].watch
  ELSE playback.exists /\ playback.watch

\* lines 45-58: the error of the message is printed, and nothing else is done
ov_on_gst_bus_error(src) ==
  /\ process = "running"
  /\ BusWatched(src)
  /\ Len(bus_log) < MaxErrors
  /\ bus_log' = Append(bus_log, src)
  /\ UNCHANGED <<local_state, transmit, tx_graphs, tx_refs, tx_ret, conns,
                 comms_vars, remote_vars>>

\* ============================================= control channel: TCP service
\* line 325: g_threaded_socket_service_new (10), the most worker threads the
\* service runs at a time
MaxThreads == 10

\* the connections whose handler occupies a worker thread
Busy(cs) == {c \in 1..Len(cs) : cs[c] = "reading"}

\* the connections waiting in the service's queue for a free worker thread
Queued(cs) == {c \in 1..Len(cs) : cs[c] = "queued"}

\* The service hands an accepted connection to its thread pool: a worker
\* thread runs the "run" handler at once if fewer than MaxThreads are running,
\* otherwise the connection waits in the pool's queue.
Dispatch(cs) ==
  Append(cs, IF Cardinality(Busy(cs)) < MaxThreads THEN "reading" ELSE "queued")

\* The main loop accepts a connection of a remote peer (lines 339-342).
Accept ==
  /\ process = "running"
  /\ pc_comms = "done"
  /\ tcp_server.started
  /\ Len(conns) < MaxConns
  /\ conns' = Dispatch(conns)
  /\ UNCHANGED <<local_state, transmit, tx_graphs, tx_refs, tx_ret, bus_log,
                 comms_vars, remote_vars>>

\* The remote peer of connection c sends what the handler's blocking read
\* waits for: the negotiation on c runs to its end, the worker thread goes
\* back to the pool and takes the connection queued first, if any.
PeerSends(c) ==
  /\ process = "running"
  /\ c \in Busy(conns)
  /\ LET done == [conns EXCEPT ![c] = "done"]
         next == IF Queued(done) = {} THEN 0
                 ELSE CHOOSE q \in Queued(done) : \A o \in Queued(done) : q <= o
     IN conns' = IF next = 0 THEN done ELSE [done EXCEPT ![next] = "reading"]
  /\ UNCHANGED <<local_state, transmit, tx_graphs, tx_refs, tx_ret, bus_log,
                 comms_vars, remote_vars>>

\* ------------------------------------------------------------ specifications
\* the remote side before anything was set up
RemoteIdle ==
  /\ process = "running"
  /\ fatal = "none"
  /\ playback = NoPlayback
  /\ bins = [b \in BinIds |-> {}]
  /\ mixer_pads = {}
  /\ mixer_links = {}
  /\ padserial = 0
  /\ peers = [p \in Peers |-> AbsentPeer]

\* the startup side before ov_local_peer_setup_comms
CommsIdle ==
  /\ pc_comms = "idle"
  /\ mc_ifaces = cfg_ifaces
  /\ tcp_server = NoServer
  /\ mc_socket = NoSocket
  /\ mc_source = NoSource
  /\ mc_socket_source = FALSE
  /\ mc_joined = {}
  /\ comms_log = <<>>
  /\ comms_ret = FALSE

\* the local peer before it was started
LocalIdle ==
  /\ local_state = {}
  /\ transmit = 0
  /\ tx_graphs = [g \in GraphIds |-> NoGraph]
  /\ tx_refs = [f \in EndpointNames |-> NoRef]
  /\ tx_ret = FALSE
  /\ bus_log = <<>>
  /\ conns = <<>>

InitComms ==
  /\ cfg_ifaces \in IfaceLists
  /\ CommsIdle
  /\ LocalIdle
  /\ joinable \in SUBSET Ifaces
  /\ tcp_ok \in BOOLEAN
  /\ mc_bind_ok \in BOOLEAN
  /\ RemoteIdle
  /\ unbindable = {}

NextComms == ov_local_peer_setup_comms

SpecComms == InitComms /\ [][NextComms]_vars

InitRemote ==
  /\ RemoteIdle
  /\ LocalIdle
  /\ unbindable \in SUBSET RefusedPorts
  /\ cfg_ifaces = <<>>
  /\ CommsIdle
  /\ joinable = {}
  /\ tcp_ok = TRUE
  /\ mc_bind_ok = TRUE

NextRemote ==
  \/ ov_local_peer_setup_playback_pipeline
  \/ \E p \in Peers : Negotiate(p)
  \/ \E p \in Peers : ov_local_peer_setup_remote_receive(p)
  \/ \E p \in Peers : ov_local_peer_setup_remote_playback(p)
  \/ \E p \in Peers, session \in Sessions : rtpbin_pad_added(p, session)
  \/ \E p \in Peers : Teardown(p)

SpecRemote == InitRemote /\ [][NextRemote]_vars

InitLocal ==
  /\ RemoteIdle
  /\ LocalIdle
  /\ unbindable = {}
  /\ cfg_ifaces = <<>>
  /\ CommsIdle
  /\ joinable = {}
  /\ tcp_ok = TRUE
  /\ mc_bind_ok = TRUE

NextLocal ==
  \/ \E s \in SUBSET StateBits : ov_local_peer_set_state(s)
  \/ ov_local_peer_setup_transmit_pipeline
  \/ ov_local_peer_setup_playback_pipeline
  \/ \E src \in ErrorSources : ov_on_gst_bus_error(src)

SpecLocal == InitLocal /\ [][NextLocal]_vars

\* the startup call with one interface that can be joined, then the control
\* connections of the remote peers
InitControl ==
  /\ cfg_ifaces = <<1>>
  /\ CommsIdle
  /\ LocalIdle
  /\ joinable = {1}
  /\ tcp_ok \in BOOLEAN
  /\ mc_bind_ok = TRUE
  /\ RemoteIdle
  /\ unbindable = {}

NextControl ==
  \/ ov_local_peer_setup_comms
  \/ Accept
  \/ \E c \in 1..MaxConns : PeerSends(c)

SpecControl == InitControl /\ [][NextControl]_vars

\* the join loop of the call was run to its end and the call returned
JoinLoopRan == pc_comms = "done" /\ tcp_ok /\ mc_bind_ok

\* ============================================== claims: startup (C1-C4, C18)
\* The interfaces of the configured list on which a join can succeed.
JoinableConfigured == Range(cfg_ifaces) \cap joinable

\* C1: for a non-empty configured list, once the join loop has run the call
\* returns TRUE if at least one join succeeded and FALSE only if every join
\* failed, whatever the order of the successes and failures.
C1_FailsOnlyIfNoJoin ==
  (JoinLoopRan /\ cfg_ifaces # <<>>) => (comms_ret <=> mc_joined # {})

\* C2: with at least one joinable configured interface, after the call the
\* active list is non-empty, holds only configured interfaces in their
\* configured order, and once the join loop has run holds exactly the
\* interfaces whose join succeeded: every failed one dropped, none skipped.
C2_ActiveSetIsJoinedSet ==
  (pc_comms = "done" /\ JoinableConfigured # {}) =>
     /\ mc_ifaces # <<>>
     /\ Range(mc_ifaces) \subseteq Range(cfg_ifaces)
     /\ JoinLoopRan =>
          /\ Range(mc_ifaces) = mc_joined
          /\ mc_joined = JoinableConfigured
          /\ mc_ifaces = SelectSeq(cfg_ifaces, LAMBDA i : i \in joinable)
          /\ Len(comms_log) = Len(cfg_ifaces) - Len(mc_ifaces)

\* C2 witness: a list of three interfaces whose middle interface could not be
\* joined came back with the two others, the failure having been logged.
C2_Witness ==
  /\ JoinLoopRan
  /\ Len(cfg_ifaces) = 3
  /\ cfg_ifaces[2] \notin joinable
  /\ Len(mc_ifaces) = 2
  /\ Len(comms_log) = 1

\* C3: with no joinable interface the call fails and leaves nothing behind:
\* the multicast socket is not bound any more, no event source is attached
\* and priv->mc_socket_source does not point at a released source.
C3_NoLeakWhenNoJoin ==
  (JoinLoopRan /\ JoinableConfigured = {}) =>
     /\ comms_ret = FALSE
     /\ mc_socket.state # "bound"
     /\ mc_source.state # "attached"
     /\ mc_socket_source = FALSE

\* C4: when the TCP listener address cannot be added the call returns FALSE,
\* the socket service is never started and neither the multicast socket nor
\* its event source is created.
C4_ListenerFailureIsFatal ==
  (pc_comms = "done" /\ ~tcp_ok) =>
     /\ comms_ret = FALSE
     /\ ~tcp_server.started
     /\ ~tcp_server.handler
     /\ mc_socket = NoSocket
     /\ mc_source = NoSource
     /\ mc_socket_source = FALSE
     /\ mc_joined = {}
     /\ mc_ifaces = cfg_ifaces

\* C4 witness: the call has returned after a failed listener setup although
\* the multicast side could have been set up.
C4_Witness ==
  /\ pc_comms = "done"
  /\ ~tcp_ok
  /\ mc_bind_ok
  /\ JoinableConfigured # {}
  /\ tcp_server.created

\* C18: the call returns TRUE only with the multicast socket bound and its
\* event source attached; when the bind of the multicast socket fails the
\* call returns FALSE, the socket is closed again, and no event source is
\* released, none having been created.
C18_BindFailureReturnsFalse ==
  /\ (pc_comms = "done" /\ comms_ret) =>
        /\ mc_socket.state = "bound"
        /\ mc_source.state = "attached"
        /\ mc_socket_source
  /\ (pc_comms = "done" /\ tcp_ok /\ ~mc_bind_ok) =>
        /\ comms_ret = FALSE
        /\ mc_socket.state = "closed"
        /\ mc_source = NoSource
        /\ mc_socket_source = FALSE

\* ============================================ claims: remote peers (C5-C10)
\* the sockets a peer's receive graph holds: <<peer, flow, port>>
SocketsOf(p) ==
  {<<p, i, peers[p].socks[i]>> : i \in {j \in Flows : peers[p].socks[j] # 0}}

OpenSockets == UNION {SocketsOf(p) : p \in Peers}

\* everything inside the playback pipeline, its child bins included
PlaybackTree ==
  bins[PlaybackBin] \cup UNION {bins[b] : b \in bins[PlaybackBin] \cap BinIds}

OwnedBy(p, elems) == {e \in elems : e[1] = p}

\* q's bridge: its audio proxy source sits in its bin inside the playback
\* pipeline with its ghost pad linked to q's mixer input, and its video proxy
\* source sits with a video sink in its bin inside the playback pipeline
BridgeLinked(q) ==
  /\ peers[q].audio_proxysrc
  /\ peers[q].mixer_pad \in mixer_pads
  /\ <<peers[q].mixer_pad, q>> \in mixer_links
  /\ APlaybackBin(q) \in bins[PlaybackBin]
  /\ <<q, "audio_proxysrc">> \in bins[APlaybackBin(q)]
  /\ peers[q].video_proxysrc
  /\ VPlaybackBin(q) \in bins[PlaybackBin]
  /\ {<<q, "video_proxysrc">>, <<q, "video_sink">>} \subseteq bins[VPlaybackBin(q)]

\* C5: the sockets bound for the live remote peers are bound to pairwise
\* distinct local ports, across peers and across the four flows of one peer,
\* each to the recv port the allocator assigned to its flow.
C5_RecvPortsDistinct ==
  /\ \A p \in Peers, i \in Flows :
       peers[p].socks[i] # 0 =>
         /\ peers[p].st = "receiving"
         /\ peers[p].socks[i] = peers[p].recv_ports[i]
  /\ \A p, q \in Peers, i, j \in Flows :
       (<<p, i>> # <<q, j>> /\ peers[p].socks[i] # 0 /\ peers[q].socks[j] # 0)
         => peers[p].socks[i] # peers[q].socks[j]

\* C5 witness: two peers are receiving at once, with all eight sockets bound.
C5_Witness ==
  /\ process = "running"
  /\ peers[1].st = "receiving"
  /\ peers[2].st = "receiving"
  /\ Cardinality(OpenSockets) = 2 * NumFlows

C7_TeardownTouchesOnlyThatPeer ==
  [][\A p \in Peers :
       (peers[p].st \in Live /\ peers'[p].st = "gone" /\ process' = "running") =>
          /\ OpenSockets' = OpenSockets \ SocketsOf(p)
          /\ (peers[p].st = "receiving" /\ unbindable = {})
                => Cardinality(SocketsOf(p)) = NumFlows
          /\ mixer_pads' = mixer_pads \ {peers[p].mixer_pad}
          /\ PlaybackTree' = PlaybackTree \ OwnedBy(p, PlaybackTree)
          /\ OwnedBy(p, PlaybackTree') = {}
          /\ \A q \in Peers \ {p} :
               /\ peers'[q] = peers[q]
               /\ SocketsOf(q)' = SocketsOf(q)
               /\ BridgeLinked(q) => BridgeLinked(q)'
          /\ playback' = playback
          /\ {AudioMixer, AudioSink} \cap bins[PlaybackBin]
               = {AudioMixer, AudioSink} \cap bins'[PlaybackBin]]_vars

\* C7 witness: both peers had been bridged, peer 1 was torn down, and peer 2
\* is still bridged, holding its four sockets, next to a running playback graph.
C7_Witness ==
  /\ process = "running"
  /\ padserial = 2
  /\ peers[1].st = "gone"
  /\ BridgeLinked(2)
  /\ Cardinality(SocketsOf(2)) = NumFlows
  /\ playback.exists
  /\ OwnedBy(1, PlaybackTree) = {}

\* C8: when rtpbin_pad_added is handed a pad of session 2, only the remote
\* peer owning that receive graph is torn down; the process, the playback
\* graph and every other remote peer stay as they were.
C8_InvalidSessionTearsDownOnlyOwner ==
  [][\A p \in Peers :
       rtpbin_pad_added(p, 2) =>
          /\ process' = "running"
          /\ peers'[p].st = "gone"
          /\ \A q \in Peers \ {p} : peers'[q] = peers[q]
          /\ playback' = playback]_vars

\* the step linked a pad of session s to p's audio (video) decode branch
LinkedToAudio(p, s) ==
  /\ process' = "running"
  /\ peers[p].adepay_src = -1
  /\ peers'[p].adepay_src = s

LinkedToVideo(p, s) ==
  /\ process' = "running"
  /\ peers[p].vdepay_src = -1
  /\ peers'[p].vdepay_src = s

\* C9: rtpbin_pad_added links the pad to the audio branch only for session 0
\* and to the video branch only for session 1, does so whenever that branch
\* is still unlinked, and for every other session number (10 included) links
\* nothing and ends fatally.
C9_OnlySessions0And1AreLinked ==
  [][\A p \in Peers, s \in Sessions :
       rtpbin_pad_added(p, s) =>
          /\ LinkedToAudio(p, s) => s = 0
          /\ LinkedToVideo(p, s) => s = 1
          /\ (s = 0 /\ peers[p].adepay_src = -1) => LinkedToAudio(p, s)
          /\ (s = 1 /\ peers[p].vdepay_src = -1) => LinkedToVideo(p, s)
          /\ s \notin {0, 1} =>
               /\ ~LinkedToAudio(p, s)
               /\ ~LinkedToVideo(p, s)
               /\ fatal' # "none"]_vars

\* C10: a bind failure yields no socket and leaves none open, and a receive
\* graph is never built for a peer unless each of its four flows is backed by
\* a bound socket.
C10_NoGraphAfterBindFailure ==
  /\ \A port \in unbindable :
       ov_get_socket_for_addr(port, unbindable) = [socket |-> 0, open |-> {}]
  /\ \A p \in Peers :
       (peers[p].st = "receiving" \/ peers[p].receive # {}) =>
          \A i \in Flows : peers[p].socks[i] # 0

\* ============================================ claims: local peer (C11, C13, C16)
\* the transmit pipelines that exist
AliveGraphs == {g \in GraphIds : tx_graphs[g].state = "alive"}

\* every cached field points at an element of pipeline g
RefsInto(g) == \A f \in EndpointNames : tx_refs[f] \in tx_graphs[g].elements

\* C11: each ov_local_peer_setup_transmit_pipeline call made while STARTED is
\* set returns TRUE and leaves exactly one transmit pipeline, a new one in
\* priv->transmit: the pipeline priv->transmit held before is released, and
\* each of the seven cached fields points at an element of the new pipeline.
C11_RebuildLeavesOneGraph ==
  [][(ov_local_peer_setup_transmit_pipeline /\ "STARTED" \in local_state) =>
       /\ tx_ret'
       /\ transmit' \notin AliveGraphs
       /\ AliveGraphs' = {transmit'}
       /\ transmit # 0 => tx_graphs'[transmit].state = "freed"
       /\ \A f \in EndpointNames : tx_refs'[f] \in tx_graphs'[transmit'].elements
       /\ Cardinality({tx_refs'[f] : f \in EndpointNames}) = 7]_vars

\* C11 witness: two pipelines in a row were built while STARTED was set; the
\* first is released, the second is the one priv->transmit and the cached
\* fields point at.
C11_Witness ==
  /\ "STARTED" \in local_state
  /\ "STARTED" \in tx_graphs[1].built_in
  /\ "STARTED" \in tx_graphs[2].built_in
  /\ tx_graphs[1].state = "freed"
  /\ transmit = 2
  /\ AliveGraphs = {2}
  /\ RefsInto(2)

\* C13: an error message from the bus of the transmit or of the playback
\* pipeline is logged and the pipeline it came from is torn down and not built
\* again by the handler, while the process keeps running and the other
\* pipeline, the remote peers and the control connections stay as they were.
C13_ErrorTearsDownOwningGraph ==
  [][\A src \in ErrorSources :
       ov_on_gst_bus_error(src) =>
          /\ bus_log' = Append(bus_log, src)
          /\ process' = "running"
          /\ src = "transmit" =>
               /\ transmit' = 0
               /\ AliveGraphs' = {}
               /\ playback' = playback
          /\ src = "playback" =>
               /\ ~playback'.exists
               /\ bins'[PlaybackBin] = {}
               /\ UNCHANGED <<transmit, tx_graphs, tx_refs>>
          /\ UNCHANGED <<peers, conns, local_state>>]_vars

\* C16: a call made in state NULL (neither STARTED nor READY set) returns
\* FALSE and leaves priv->transmit, the pipelines and the cached fields as
\* they were; a call made with either bit set builds a pipeline, makes it
\* priv->transmit and returns TRUE.
C16_TransmitOnlyWhenActive ==
  [][ov_local_peer_setup_transmit_pipeline =>
       IF local_state \cap {"STARTED", "READY"} = {}
       THEN /\ tx_ret' = FALSE
            /\ UNCHANGED <<transmit, tx_graphs, tx_refs>>
       ELSE /\ tx_ret' = TRUE
            /\ tx_graphs[transmit'].state = "none"
            /\ tx_graphs'[transmit'].state = "alive"
            /\ tx_graphs'[transmit'].built_in = local_state
            /\ tx_graphs'[transmit'].elements =
                 {<<transmit', e>> : e \in TransmitElements}]_vars

\* C16 witness: a call in state NULL has returned FALSE while the pipeline
\* built earlier, in state READY alone, is still there with the cached fields
\* pointing into it.
C16_Witness ==
  /\ local_state = {}
  /\ tx_ret = FALSE
  /\ transmit = 1
  /\ tx_graphs[1].state = "alive"
  /\ tx_graphs[1].built_in = {"READY"}
  /\ RefsInto(1)

\* ================================================ claims: control channel (C12)
\* C12: every accepted connection whose negotiation is not over has a worker
\* thread of its own, however many connections are open at once: none waits
\* for the worker of another connection to come back from its blocking read.
C12_EveryConnectionHasItsWorker ==
  \A c \in 1..Len(conns) : conns[c] # "queued"

\* ===================================== claims: order of the setup steps (C14)
\* something of p's bridge exists: a proxy source, a mixer input, or an
\* element of p inside the playback pipeline
BridgeStarted(p) ==
  \/ peers[p].audio_proxysrc
  \/ peers[p].video_proxysrc
  \/ peers[p].mixer_pad # 0
  \/ \E l \in mixer_links : l[2] = p
  \/ OwnedBy(p, PlaybackTree) # {}

\* p's receive graph is complete: all elements added and linked, the pad-added
\* handler connected and both proxy sinks published
ReceiveBuilt(p) ==
  /\ peers[p].receive = ReceiveElements
  /\ peers[p].linked
  /\ peers[p].pad_added
  /\ peers[p].audio_proxysink
  /\ peers[p].video_proxysink

C15_PlaybackBuiltOnce ==
  [][/\ (ov_local_peer_setup_playback_pipeline /\ ~playback.exists) =>
          playback'.exists
     /\ playback'.exists =>
          /\ playback'.builds = 1
          /\ playback'.clock = "system"
          /\ playback'.base_time = 0
          /\ {AudioMixer, AudioSink} \subseteq bins'[PlaybackBin]
     /\ (playback.exists /\ process' = "running") =>
          /\ playback' = playback
          /\ bins[PlaybackBin] \ bins'[PlaybackBin] \subseteq
               {b \in BinIds : \E p \in Peers : peers'[p].st = "gone" /\ b[1] = p}]_vars

\* C15 witness: both peers were set up and bridged after the playback
\* pipeline was built, and the pipeline is still the first one, on the system
\* clock with base time 0, holding its mixer, its sink and the peers' bins.
C15_Witness ==
  /\ process = "running"
  /\ playback = [exists |-> TRUE, builds |-> 1, clock |-> "system",
                 base_time |-> 0, watch |-> TRUE]
  /\ BridgeLinked(1)
  /\ BridgeLinked(2)
  /\ bins[PlaybackBin] = {AudioMixer, AudioSink, APlaybackBin(1), VPlaybackBin(1),
                          APlaybackBin(2), VPlaybackBin(2)}

\* ================================================== claims: mixer inputs (C17)
\* C17: with the playback pipeline in place, a call of
\* ov_local_peer_setup_remote_playback for a peer with a complete receive
\* graph goes through, requests exactly one mixer input that did not exist
\* before and links the peer's audio bridge to it; afterwards the bridged
\* peers hold pairwise distinct mixer inputs, and the records, mixer inputs,
\* links and playback bins of every other peer are as before.
C17_OneNewMixerInputPerBridge ==
  [][\A p \in Peers :
       (/\ ov_local_peer_setup_remote_playback(p)
        /\ ReceiveBuilt(p)
        /\ playback.exists) =>
          /\ process' = "running"
          /\ peers'[p].mixer_pad \notin mixer_pads
          /\ mixer_pads' = mixer_pads \cup {peers'[p].mixer_pad}
          /\ Cardinality(mixer_pads') = Cardinality(mixer_pads) + 1
          /\ mixer_links' = mixer_links \cup {<<peers'[p].mixer_pad, p>>}
          /\ BridgeLinked(p)'
          /\ \A q \in Peers \ {p} :
               /\ peers'[q] = peers[q]
               /\ bins'[APlaybackBin(q)] = bins[APlaybackBin(q)]
               /\ bins'[VPlaybackBin(q)] = bins[VPlaybackBin(q)]
               /\ BridgeLinked(q) => BridgeLinked(q)'
          /\ \A q1, q2 \in Peers :
               (q1 # q2 /\ peers'[q1].audio_proxysrc /\ peers'[q2].audio_proxysrc)
                  => peers'[q1].mixer_pad # peers'[q2].mixer_pad
          /\ \A l1, l2 \in mixer_links' :
               (l1[1] = l2[1] \/ l1[2] = l2[2]) => l1 = l2]_vars

\* C17 witness: peer 2 was bridged first and peer 1 second; each holds a mixer
\* input of its own and both bridges are linked.
C17_Witness ==
  /\ process = "running"
  /\ peers[2].mixer_pad = 1
  /\ peers[1].mixer_pad = 2
  /\ mixer_pads = {1, 2}
  /\ mixer_links = {<<1, 2>>, <<2, 1>>}
  /\ BridgeLinked(1)
  /\ BridgeLinked(2)

====
